---- MODULE Spec2Model ----
(***************************************************************************)
(* A model of the game-stats repository: the statistics engine             *)
(* (src/baseless.py), the catalog client with its bounded retry and its    *)
(* concurrent page download, and the stats entry point                     *)
(* (src/lambda_function.py).                                               *)
(*                                                                         *)
(* One specification per component:                                        *)
(*   SpecStats     get_h_index and get_coins applied to play-count lists   *)
(*   SpecRetry     __urlopen_retry against a service answering any status  *)
(*   SpecDownload  get_stats -> download_games with its worker pool        *)
(*   SpecHandler   lambda_handler's coercion of maxBaselessResults         *)
(*   SpecNextPlays get_baseless_next_plays                                 *)
(* The variables of the components a specification does not run stay at    *)
(* their idle values.                                                      *)
(***************************************************************************)
EXTENDS Integers, Sequences, FiniteSets, TLC

VARIABLES
    \* --- statistics engine: one call of a pure function
    fn,          \* the function called: "get_h_index", "get_coins" or "none"
    plays_arg,   \* its argument: a list of play counts
    ret,         \* <<>> before the call, then <<the return value>>
    \* --- __urlopen_retry
    url_pc,      \* "open", "loop", "returned", "timeout", "ratelimited", "httperror", "idle"
    code,        \* status code of the latest response
    response,    \* body of the latest response
    retries,     \* the retry counter
    sleeps,      \* the time.sleep() arguments so far, in order
    gets,        \* the statuses of the GETs issued so far, in order
    \* --- lambda_handler
    event,       \* the event: a mapping with "username" and maybe "maxBaselessResults"
    handler_pc,  \* "start", "get_stats" (get_stats called), "TypeError", "idle"
    passed_limit, \* <<>>, or <<the max_next_play_results passed to get_stats>>
    \* --- the catalog service, as download_games sees it
    collection,  \* the items of the user's collection
    playlog,     \* the user's play log, served in pages of 100
    \* --- download_games, called by get_stats
    dl_pc,       \* "collection", "first_page", "pool", "shutdown", "returned", "raised", "idle"
    dl_error,    \* the exception download_games raises, "" when none
    games,       \* the games dict, in insertion order
    total_pages, \* pages to fetch, from the first page's total
    plays_pages, \* `plays`: the page bodies collected so far, in order
    futures,     \* the pool's work items: page -> [status, error, body]
    requested,   \* the pages __download_bgg_plays was called for, in call order
    failed,      \* the fetches that failed: 0 for the collection, else the page
    \* --- get_stats
    stats_pc,    \* "download", "returned", "raised", "AttributeError", "idle"
    output,      \* <<>>, or <<the document get_stats returns>>
    \* --- get_baseless_next_plays
    np_pc,       \* "start", "loop", "returned", "idle"
    np_games,    \* `games`: the list of Game given, each with its plays list as it is now
    optimum_size, \* the optimum size of the games as they are
    np_i,        \* the position of the for loop in games
    result,      \* the projections appended so far
    adjusted_list_of_plays, \* the play lists of the latest simulation
    next_plays   \* <<>>, or <<the sorted list returned>>

stats_vars == <<fn, plays_arg, ret>>
retry_vars == <<url_pc, code, response, retries, sleeps, gets>>
handler_vars == <<event, handler_pc, passed_limit>>
service_vars == <<collection, playlog>>
download_vars == <<dl_pc, dl_error, games, total_pages, plays_pages, futures, requested, failed>>
get_stats_vars == <<stats_pc, output>>
dl_vars == <<service_vars, download_vars, get_stats_vars>>
np_vars == <<np_pc, np_games, optimum_size, np_i, result, adjusted_list_of_plays, next_plays>>
vars == <<stats_vars, retry_vars, handler_vars, dl_vars, np_vars>>

(***************************************************************************)
(* Helpers on sequences.                                                   *)
(***************************************************************************)
Range(s) == {s[i] : i \in DOMAIN s}

SeqsUpTo(S, n) == UNION {[1..k -> S] : k \in 0..n}

Max2(a, b) == IF a >= b THEN a ELSE b

\* Stable insertion of x in a list kept in descending order by key: x goes
\* after every element whose key is >= its own.
RECURSIVE InsertDesc(_, _)
InsertDesc(x, s) ==
    IF s = <<>> THEN <<x>>
    ELSE IF Head(s) >= x THEN <<Head(s)>> \o InsertDesc(x, Tail(s))
    ELSE <<x>> \o s

\* sorted(plays, reverse=True) on integers.
RECURSIVE SortedDesc(_)
SortedDesc(s) ==
    IF s = <<>> THEN <<>>
    ELSE InsertDesc(Head(s), SortedDesc(Tail(s)))

(***************************************************************************)
(* Idle values of each component.                                          *)
(***************************************************************************)
StatsIdle == fn = "none" /\ plays_arg = <<>> /\ ret = <<>>

RetryIdle ==
    /\ url_pc = "idle" /\ code = 0 /\ response = <<>> /\ retries = 0
    /\ sleeps = <<>> /\ gets = <<>>

HandlerIdle == event = <<>> /\ handler_pc = "idle" /\ passed_limit = <<>>

DownloadIdle ==
    /\ collection = <<>> /\ playlog = <<>>
    /\ dl_pc = "idle" /\ dl_error = "" /\ games = <<>> /\ total_pages = 0
    /\ plays_pages = <<>> /\ futures = <<>> /\ requested = <<>> /\ failed = {}
    /\ stats_pc = "idle" /\ output = <<>>

NextPlaysIdle ==
    /\ np_pc = "idle" /\ np_games = <<>> /\ optimum_size = 0 /\ np_i = 0
    /\ result = <<>> /\ adjusted_list_of_plays = <<>> /\ next_plays = <<>>

(***************************************************************************)
(* Statistics engine: get_h_index, get_coins.                              *)
(***************************************************************************)
\* The while loop of get_h_index, from h_index = h:
\* `while h_index + 1 < len(plays_desc) and h_index + 1 <= plays_desc[h_index]`
\* (Python indexes from 0, TLA+ from 1).
RECURSIVE HIndexLoop(_, _)
HIndexLoop(plays_desc, h) ==
    IF h + 1 < Len(plays_desc) /\ h + 1 <= plays_desc[h + 1]
    THEN HIndexLoop(plays_desc, h + 1)
    ELSE h

get_h_index(plays) == HIndexLoop(SortedDesc(plays), 0)

\* The coin thresholds of get_coins.
DOLLAR == 100
HALF == 50
QUARTER == 25
DIME == 10
NICKEL == 5

NoCoins == [nickels |-> 0, dimes |-> 0, quarters |-> 0, halves |-> 0, dollars |-> 0]

\* A variant of the if/elif chain with exclusive thresholds.
CoinOfExclusive(play) ==
    IF play > DOLLAR THEN "dollars"
    ELSE IF play > HALF THEN "halves"
    ELSE IF play > QUARTER THEN "quarters"
    ELSE IF play > DIME THEN "dimes"
    ELSE IF play > NICKEL THEN "nickels"
    ELSE "none"

\* The if/elif chain of get_coins: the one counter a play count adds to.
CoinOf(play) ==
    IF play >= DOLLAR THEN "dollars"
    ELSE IF play >= HALF THEN "halves"
    ELSE IF play >= QUARTER THEN "quarters"
    ELSE IF play >= DIME THEN "dimes"
    ELSE IF play >= NICKEL THEN "nickels"
    ELSE "none"

\* The for loop of get_coins over plays[i..], from the counters acc.
RECURSIVE CoinsLoop(_, _, _)
CoinsLoop(plays, i, acc) ==
    IF i > Len(plays) THEN acc
    ELSE LET c == CoinOf(plays[i])
         IN CoinsLoop(plays, i + 1,
                      IF c = "none" THEN acc ELSE [acc EXCEPT ![c] = @ + 1])

get_coins(plays) == CoinsLoop(plays, 1, NoCoins)

\* Inputs: every list of at most MaxListLen play counts around the loop's and
\* the thresholds' boundaries, and the lists the documentation names.
MaxListLen == 2
MaxSmallCount == 3

BoundaryCounts ==
    (0..MaxSmallCount) \cup
    {NICKEL - 1, NICKEL, DIME - 1, DIME, QUARTER - 1, QUARTER,
     HALF - 1, HALF, DOLLAR - 1, DOLLAR}

SixSixes == <<6, 6, 6, 6, 6, 6>>
CoinExample == <<4, 5, 9, 10, 24, 25, 49, 50, 99, 100>>

NamedLists == {SixSixes, <<1, 1, 1>>, <<0, 0, 0>>, <<>>, CoinExample}

StatsInputs == SeqsUpTo(BoundaryCounts, MaxListLen) \cup NamedLists

InitStats ==
    /\ fn \in {"get_h_index", "get_coins"}
    /\ plays_arg \in StatsInputs
    /\ ret = <<>>
    /\ RetryIdle /\ HandlerIdle /\ DownloadIdle /\ NextPlaysIdle

CallGetHIndex ==
    /\ fn = "get_h_index" /\ ret = <<>>
    /\ ret' = <<get_h_index(plays_arg)>>
    /\ UNCHANGED <<fn, plays_arg, retry_vars, handler_vars, dl_vars, np_vars>>

CallGetCoins ==
    /\ fn = "get_coins" /\ ret = <<>>
    /\ ret' = <<get_coins(plays_arg)>>
    /\ UNCHANGED <<fn, plays_arg, retry_vars, handler_vars, dl_vars, np_vars>>

NextStats == CallGetHIndex \/ CallGetCoins

SpecStats == InitStats /\ [][NextStats]_vars

\* The number of games of a list played at least h times.
PlayedAtLeast(plays, h) == Cardinality({i \in DOMAIN plays : plays[i] >= h})

\* The standard h-index: the largest h with at least h games played >= h times.
StandardHIndex(plays) ==
    CHOOSE h \in 0..Len(plays) :
        /\ PlayedAtLeast(plays, h) >= h
        /\ \A k \in (h + 1)..Len(plays) : PlayedAtLeast(plays, k) < k

HIndexReturned == fn = "get_h_index" /\ ret # <<>>

\* C1: for every list of play counts get_h_index returns the largest h such
\* that at least h games have each been played at least h times (6 for six
\* sixes, 1 for [1,1,1], 0 for [] and for [0,0,0]).
C1_HIndexIsStandard ==
    HIndexReturned => ret[1] = StandardHIndex(plays_arg)

CoinsReturned == fn = "get_coins" /\ ret # <<>>

\* C9 as stated: on [4,5,9,10,24,25,49,50,99,100] get_coins returns one game
\* in each of the five buckets.
C9_OneInEachBucket ==
    (CoinsReturned /\ plays_arg = CoinExample) =>
        ret[1] = [nickels |-> 1, dimes |-> 1, quarters |-> 1, halves |-> 1, dollars |-> 1]

\* C9 amended: on [4,5,9,10,24,25,49,50,99,100] get_coins returns nickels = 2,
\* dimes = 2, quarters = 2, halves = 2 and dollars = 1: every count from a
\* threshold up to the next one lands in that threshold's bucket, 4 in none.
C9_TwoInEachBucketButDollars ==
    (CoinsReturned /\ plays_arg = CoinExample) =>
        ret[1] = [nickels |-> 2, dimes |-> 2, quarters |-> 2, halves |-> 2, dollars |-> 1]

C9_Witness == CoinsReturned /\ plays_arg = CoinExample

(***************************************************************************)
(* Catalog client: __urlopen and __urlopen_retry.                          *)
(***************************************************************************)
\* The statuses the service answers a GET with; 404 and 500 stand for the
\* statuses other than 429 that urlopen raises HTTPError for.
OK == 200
PROCESSING == 202
TOO_MANY == 429
NOT_FOUND == 404
SERVER_ERROR == 500

Statuses == {OK, PROCESSING, TOO_MANY, NOT_FOUND, SERVER_ERROR}

\* The body the service sends with its n-th response, of status s: a
\* non-empty text, different for every response.
Body(s, n) == <<s, n>>

\* __urlopen when the service answers the n-th GET with status s: the body
\* and the code, '' and 429 for a 429, and every other HTTPError raised.
urlopen(s, n) ==
    IF s = TOO_MANY THEN [raised |-> FALSE, response |-> <<>>, code |-> TOO_MANY]
    ELSE IF s \in {NOT_FOUND, SERVER_ERROR}
         THEN [raised |-> TRUE, response |-> <<>>, code |-> s]
    ELSE [raised |-> FALSE, response |-> Body(s, n), code |-> s]

\* The last value of `retries` the while loop is entered with.
MAX_RETRIES == 2
SLEEP_429 == 5

RECURSIVE Pow2(_)
Pow2(n) == IF n = 0 THEN 1 ELSE 2 * Pow2(n - 1)

\* `while (code in (202, 429) and retries <= 2)`
RetryAgain(c, r) == c \in {PROCESSING, TOO_MANY} /\ r <= MAX_RETRIES

\* A backoff that grows by 2 seconds instead of doubling.
SleepTimeLinear(c, r) == IF c = PROCESSING THEN 2 * r ELSE SLEEP_429

\* `sleep_time = math.pow(2, retries) if code == 202 else 5`
SleepTime(c, r) == IF c = PROCESSING THEN Pow2(r) ELSE SLEEP_429

\* A variant of the checks after the loop that only looks for a 202.
AfterLoopNo429(c) == IF c = PROCESSING THEN "timeout" ELSE "returned"

\* The checks after the loop: "Timeout waiting for ... to be processed" on a
\* 202, "Too many requests" on a 429, the response returned otherwise.
AfterLoop(c) ==
    IF c = PROCESSING THEN "timeout"
    ELSE IF c = TOO_MANY THEN "ratelimited"
    ELSE "returned"

InitRetry ==
    /\ url_pc = "open" /\ code = 0 /\ response = <<>> /\ retries = 0
    /\ sleeps = <<>> /\ gets = <<>>
    /\ StatsIdle /\ HandlerIdle /\ DownloadIdle /\ NextPlaysIdle

\* response, code = __urlopen(url), before the loop.
UrlopenFirst ==
    /\ url_pc = "open"
    /\ \E s \in Statuses :
         LET r == urlopen(s, 1) IN
         /\ gets' = <<s>>
         /\ IF r.raised
            THEN url_pc' = "httperror" /\ UNCHANGED <<code, response>>
            ELSE url_pc' = "loop" /\ code' = r.code /\ response' = r.response
    /\ UNCHANGED <<retries, sleeps, stats_vars, handler_vars, dl_vars, np_vars>>

\* One pass of the while loop: count the retry, sleep, GET again.
RetryStep ==
    /\ url_pc = "loop"
    /\ RetryAgain(code, retries)
    /\ retries' = retries + 1
    /\ sleeps' = Append(sleeps, SleepTime(code, retries + 1))
    /\ \E s \in Statuses :
         LET r == urlopen(s, Len(gets) + 1) IN
         /\ gets' = Append(gets, s)
         /\ IF r.raised
            THEN url_pc' = "httperror" /\ UNCHANGED <<code, response>>
            ELSE url_pc' = "loop" /\ code' = r.code /\ response' = r.response
    /\ UNCHANGED <<stats_vars, handler_vars, dl_vars, np_vars>>

\* The loop is left: raise on a 202 or a 429, return the response otherwise.
UrlopenRetryEnd ==
    /\ url_pc = "loop"
    /\ ~RetryAgain(code, retries)
    /\ url_pc' = AfterLoop(code)
    /\ UNCHANGED <<code, response, retries, sleeps, gets, stats_vars, handler_vars, dl_vars, np_vars>>

NextRetry == UrlopenFirst \/ RetryStep \/ UrlopenRetryEnd

SpecRetry == InitRetry /\ [][NextRetry]_vars

RetryEnded == url_pc \in {"returned", "timeout", "ratelimited", "httperror"}

Every(s, v) == \A i \in DOMAIN s : s[i] = v

\* The first n waits of a 202-only run: 2, 4, 8, ...
Doubling(n) == [i \in 1..n |-> Pow2(i)]

\* C2 as stated: a service answering 202 to every GET is sent at most 3 GETs
\* (the initial one and 2 retries).
C2_AtMostTwoRetries ==
    Every(gets, PROCESSING) => Len(gets) <= 3

\* C2 amended: a service answering 202 to every GET is sent at most 4 GETs (the
\* initial one and 3 retries), the waits before the retries being 2, 4 and 8
\* seconds, and then the call stops with the processing timeout; a service
\* answering 429 to every GET has every wait be 5 seconds.
C2_ThreeRetriesDoubling ==
    /\ Every(gets, PROCESSING) =>
         /\ Len(gets) <= MAX_RETRIES + 2
         /\ gets # <<>> => sleeps = Doubling(Len(gets) - 1)
         /\ RetryEnded => Len(gets) = MAX_RETRIES + 2 /\ url_pc = "timeout"
    /\ Every(gets, TOO_MANY) =>
         /\ Len(gets) <= MAX_RETRIES + 2
         /\ Every(sleeps, SLEEP_429) /\ Len(sleeps) = retries
         /\ RetryEnded => Len(gets) = MAX_RETRIES + 2 /\ url_pc = "ratelimited"

C2_Witness ==
    /\ url_pc = "timeout" /\ Every(gets, PROCESSING)
    /\ sleeps = <<2, 4, 8>>

Retryable(s) == s \in {PROCESSING, TOO_MANY}

Last(s) == s[Len(s)]

\* C3: against statuses from {200, 202, 429} the call returns the body of the
\* first response that is neither 202 nor 429, or, its retries exhausted,
\* fails with the processing timeout exactly when the last response was 202
\* and with the rate-limit error exactly when it was 429; the body of a 202
\* or 429 response is never returned.
C3_ReturnsFirstFinalOrFails ==
    (RetryEnded /\ Range(gets) \subseteq {OK, PROCESSING, TOO_MANY}) =>
        /\ url_pc # "httperror"
        /\ url_pc = "returned" =>
             /\ ~Retryable(Last(gets))
             /\ \A i \in 1..(Len(gets) - 1) : Retryable(gets[i])
             /\ response = Body(Last(gets), Len(gets))
        /\ url_pc # "returned" =>
             /\ Len(gets) = MAX_RETRIES + 2
             /\ \A i \in DOMAIN gets : Retryable(gets[i])
        /\ url_pc = "timeout" <=> Last(gets) = PROCESSING
        /\ url_pc = "ratelimited" <=> Last(gets) = TOO_MANY

C3_Witness ==
    /\ url_pc = "ratelimited"
    /\ gets = <<PROCESSING, TOO_MANY, PROCESSING, TOO_MANY>>

(***************************************************************************)
(* Stats entry point: lambda_handler.                                      *)
(***************************************************************************)
\* The values an event carries under maxBaselessResults: integers, booleans
\* (n = 1 for true), floats (n in tenths), strings (t, a list of characters),
\* null and lists (t, the items).
MaxInt == 12
MaxStrLen == 3

Chars == {"0", "1", "9", "x", "-", " "}
Digits == {"0", "1", "9"}

Values ==
    [kind : {"int"}, n : (0 - 2)..MaxInt, t : {<<>>}] \cup
    [kind : {"bool"}, n : {0, 1}, t : {<<>>}] \cup
    [kind : {"float"}, n : {0 - 25, 0 - 5, 0, 5, 25, 990}, t : {<<>>}] \cup
    [kind : {"str"}, n : {0}, t : SeqsUpTo(Chars, MaxStrLen)] \cup
    [kind : {"null"}, n : {0}, t : {<<>>}] \cup
    [kind : {"list"}, n : {0}, t : {<<>>, <<"1">>}]

DigitValue(c) == CASE c = "0" -> 0 [] c = "1" -> 1 [] c = "9" -> 9

\* The text without its leading and trailing whitespace.
RECURSIVE StripLeft(_)
StripLeft(t) == IF t # <<>> /\ Head(t) = " " THEN StripLeft(Tail(t)) ELSE t

RECURSIVE StripRight(_)
StripRight(t) ==
    IF t # <<>> /\ t[Len(t)] = " " THEN StripRight(SubSeq(t, 1, Len(t) - 1)) ELSE t

\* The value of a text of decimal digits.
RECURSIVE DecimalValue(_)
DecimalValue(t) ==
    IF t = <<>> THEN 0
    ELSE 10 * DecimalValue(SubSeq(t, 1, Len(t) - 1)) + DigitValue(t[Len(t)])

Returned(n) == [exc |-> "none", v |-> n]
Raised(e) == [exc |-> e, v |-> 0]

\* int() of a string: whitespace stripped, an optional sign, then digits only.
IntOfStr(text) ==
    LET t == StripRight(StripLeft(text))
        neg == t # <<>> /\ Head(t) = "-"
        d == IF neg THEN Tail(t) ELSE t
    IN IF d = <<>> \/ ~(Range(d) \subseteq Digits) THEN Raised("ValueError")
       ELSE Returned(IF neg THEN 0 - DecimalValue(d) ELSE DecimalValue(d))

\* Python's int(x): the integer itself, 0/1 for a boolean, a float truncated
\* towards zero, a string parsed, and TypeError for None and for a list.
int(x) ==
    CASE x.kind = "int" -> Returned(x.n)
      [] x.kind = "bool" -> Returned(x.n)
      [] x.kind = "float" ->
           Returned(IF x.n >= 0 THEN x.n \div 10 ELSE 0 - ((0 - x.n) \div 10))
      [] x.kind = "str" -> IntOfStr(x.t)
      [] OTHER -> Raised("TypeError")

DEFAULT_MAX_RESULTS == 99

\* `except ValueError: pass`
Caught(e) == e = "ValueError"

Events ==
    {[k \in {"username"} |-> [kind |-> "str", n |-> 0, t |-> <<"x">>]]} \cup
    {[k \in {"username", "maxBaselessResults"} |->
        IF k = "username" THEN [kind |-> "str", n |-> 0, t |-> <<"x">>] ELSE val] :
     val \in Values}

InitHandler ==
    /\ event \in Events
    /\ handler_pc = "start"
    /\ passed_limit = <<>>
    /\ StatsIdle /\ RetryIdle /\ DownloadIdle /\ NextPlaysIdle

\* lambda_handler up to its call of get_stats: the default of 99, replaced by
\* int(event['maxBaselessResults']) when the field is there and int() returns,
\* kept when int() raises ValueError; any other exception leaves the handler.
LambdaHandler ==
    /\ handler_pc = "start"
    /\ LET r == IF "maxBaselessResults" \in DOMAIN event
                THEN int(event["maxBaselessResults"])
                ELSE Raised("none")
       IN IF "maxBaselessResults" \notin DOMAIN event
          THEN handler_pc' = "get_stats" /\ passed_limit' = <<DEFAULT_MAX_RESULTS>>
          ELSE IF r.exc = "none"
          THEN handler_pc' = "get_stats" /\ passed_limit' = <<r.v>>
          ELSE IF Caught(r.exc)
          THEN handler_pc' = "get_stats" /\ passed_limit' = <<DEFAULT_MAX_RESULTS>>
          ELSE handler_pc' = r.exc /\ passed_limit' = <<>>
    /\ UNCHANGED <<event, stats_vars, retry_vars, dl_vars, np_vars>>

NextHandler == LambdaHandler

SpecHandler == InitHandler /\ [][NextHandler]_vars

HasLimit == "maxBaselessResults" \in DOMAIN event

\* A value is coercible to an integer when int() of it returns one.
Coercible(x) == int(x).exc = "none"

\* C7: lambda_handler passes get_stats 99 when the event has no
\* maxBaselessResults or a value not coercible to an integer (a non-numeric
\* string, null, a list), and the coerced integer otherwise; a non-coercible
\* value never makes the handler fail.
C7_DefaultWhenNotCoercible ==
    handler_pc # "start" =>
        /\ handler_pc = "get_stats"
        /\ passed_limit =
             IF HasLimit /\ Coercible(event["maxBaselessResults"])
             THEN <<int(event["maxBaselessResults"]).v>>
             ELSE <<DEFAULT_MAX_RESULTS>>

(***************************************************************************)
(* Catalog client: download_games, and get_stats which calls it.           *)
(***************************************************************************)
\* The service: a collection of NumItems items with ids 1..NumItems, whose
\* own/prevowned flags run through the four combinations starting from one of
\* NumRotations of them, and a play log whose entries cycle over the ids 1..NumItems + 1 (the
\* last one is in no collection), with quantities 1..MaxQuantity and the
\* entry's position as its date. At most MaxFailures page fetches of a run
\* fail.
NumItems == 4
NumRotations == 2
MaxQuantity == 2
MaxFullPages == 6
MaxFailures == 1

PAGE_SIZE == 100
MAX_WORKERS == 5

FlagPairs == <<<<"1", "0">>, <<"0", "1">>, <<"0", "0">>, <<"1", "1">>>>

Item(id, own, prev) ==
    [objectid |-> id, name |-> <<"game", id>>, own |-> own, prevowned |-> prev]

Collections ==
    {[i \in 1..NumItems |->
        LET f == FlagPairs[((i + r) % Len(FlagPairs)) + 1] IN Item(i, f[1], f[2])] :
     r \in 1..NumRotations}

PlayEntry(i) ==
    [objectid |-> ((i - 1) % (NumItems + 1)) + 1,
     quantity |-> 1 + (((i - 1) \div (NumItems + 1)) % MaxQuantity),
     date |-> i]

Totals ==
    {0, 1, PAGE_SIZE - 1, PAGE_SIZE, PAGE_SIZE + 1, MaxFullPages * PAGE_SIZE + 1}

PlayLogs == {[i \in 1..n |-> PlayEntry(i)] : n \in Totals}

Min2(a, b) == IF a <= b THEN a ELSE b

\* The service's answer to GET /plays?page=p: the log's total and the page's
\* entries, none beyond the last page.
PageBody(log, p) ==
    [total |-> Len(log),
     play |-> SubSeq(log, (p - 1) * PAGE_SIZE + 1, Min2(p * PAGE_SIZE, Len(log)))]

\* The ways a call of __urlopen_retry fails: its two exceptions after the
\* retries, and the HTTPError __urlopen re-raises.
FetchErrors == {"timeout", "ratelimited", "httperror"}

Game(id, name, own, prev) ==
    [game_id |-> id, game_name |-> name, is_owned |-> own,
     is_previously_owned |-> prev, plays |-> <<>>]

\* The position of key id in the dict, 0 when it is not a key.
IndexOf(dict, id) ==
    IF \E i \in DOMAIN dict : dict[i].game_id = id
    THEN CHOOSE i \in DOMAIN dict : dict[i].game_id = id
    ELSE 0

\* games[game_id] = game: a new key goes last, a known key keeps its place.
DictSet(dict, game) ==
    LET i == IndexOf(dict, game.game_id)
    IN IF i = 0 THEN Append(dict, game) ELSE [dict EXCEPT ![i] = game]

\* `if is_owned or is_prev_owned`
KeepItem(item) == item.own = "1" \/ item.prevowned = "1"

\* The loop over the collection's items, from item i.
RECURSIVE BuildGames(_, _, _)
BuildGames(items, i, dict) ==
    IF i > Len(items) THEN dict
    ELSE LET item == items[i]
             is_owned == item.own = "1"
             is_prev_owned == item.prevowned = "1"
         IN BuildGames(items, i + 1,
                IF KeepItem(item)
                THEN DictSet(dict, Game(item.objectid, item.name, is_owned, is_prev_owned))
                ELSE dict)

\* A variant of the quantity loop that records a play entry once.
RepeatOnce(date, n) == <<date>>

\* The dates `while i < play_quantity: game.plays.append(date)` appends.
Repeat(date, n) == [k \in 1..n |-> date]

\* The dates the loop over the play elements lo..hi of a page appends to the
\* plays of the game with key id: those of the elements whose item has that
\* objectid, in page order (the range is halved to keep the evaluation flat).
RECURSIVE DatesFor(_, _, _, _)
DatesFor(entries, id, lo, hi) ==
    IF lo > hi THEN <<>>
    ELSE IF lo = hi
    THEN IF entries[lo].objectid = id
         THEN Repeat(entries[lo].date, entries[lo].quantity)
         ELSE <<>>
    ELSE LET mid == (lo + hi) \div 2
         IN DatesFor(entries, id, lo, mid) \o DatesFor(entries, id, mid + 1, hi)

\* The loop over a page's play elements: an element whose objectid is no key
\* of the dict is skipped, every other one appended to its game's plays.
MergePage(dict, entries) ==
    [g \in DOMAIN dict |->
        [dict[g] EXCEPT !.plays = @ \o DatesFor(entries, dict[g].game_id, 1, Len(entries))]]

\* `for play in plays`, from page body i.
RECURSIVE MergePages(_, _, _)
MergePages(dict, bodies, i) ==
    IF i > Len(bodies) THEN dict
    ELSE MergePages(MergePage(dict, bodies[i].play), bodies, i + 1)

\* A variant that forgets the page of the sub-100 remainder.
TotalPagesNoRemainder(total) == Max2(total \div PAGE_SIZE, 1)

\* `total_pages = int(int(root.getAttribute('total')) / 100) + 1`
TotalPages(total) == (total \div PAGE_SIZE) + 1

Queued == [status |-> "queued", error |-> "", body |-> PageBody(<<>>, 1)]

\* A variant of Future.result() that hands out an empty page for a fetch
\* that raised.
FutureResultSwallow(f) ==
    [raised |-> FALSE, error |-> "",
     body |-> IF f.status = "failed" THEN PageBody(<<>>, 1) ELSE f.body]

\* Future.result(), as executor.map's iterator calls it on a finished work
\* item: the value returned, or the exception of the call raised again.
FutureResult(f) ==
    [raised |-> f.status = "failed", error |-> f.error, body |-> f.body]

Running == {p \in DOMAIN futures : futures[p].status = "running"}
Pending == {p \in DOMAIN futures : futures[p].status = "queued"}

InitDownload ==
    /\ collection \in Collections
    /\ playlog \in PlayLogs
    /\ dl_pc = "collection" /\ dl_error = "" /\ games = <<>> /\ total_pages = 0
    /\ plays_pages = <<>> /\ futures = <<>> /\ requested = <<>> /\ failed = {}
    /\ stats_pc = "download" /\ output = <<>>
    /\ StatsIdle /\ RetryIdle /\ HandlerIdle /\ NextPlaysIdle

\* Lines 45-56: the collection is fetched and the games dict built, or the
\* fetch raises.
FetchCollection ==
    /\ dl_pc = "collection"
    /\ \/ /\ games' = BuildGames(collection, 1, <<>>)
          /\ dl_pc' = "first_page"
          /\ UNCHANGED <<dl_error, failed>>
       \/ \E e \in FetchErrors :
          /\ dl_pc' = "raised" /\ dl_error' = e /\ failed' = failed \cup {0}
          /\ UNCHANGED games
    /\ UNCHANGED <<total_pages, plays_pages, futures, requested>>
    /\ UNCHANGED <<service_vars, get_stats_vars, stats_vars, retry_vars, handler_vars, np_vars>>

\* Lines 58-74: the first page is fetched, the page count computed from its
\* total, and pages 2..total_pages submitted to the pool; or the fetch raises.
FetchFirstPage ==
    /\ dl_pc = "first_page"
    /\ requested' = Append(requested, 1)
    /\ \/ LET first_page == PageBody(playlog, 1)
              n == TotalPages(first_page.total)
          IN /\ total_pages' = n
             /\ plays_pages' = <<first_page>>
             /\ futures' = [p \in 2..n |-> Queued]
             /\ dl_pc' = "pool"
             /\ UNCHANGED <<dl_error, failed>>
       \/ \E e \in FetchErrors :
          /\ dl_pc' = "raised" /\ dl_error' = e /\ failed' = failed \cup {1}
          /\ UNCHANGED <<total_pages, plays_pages, futures>>
    /\ UNCHANGED games
    /\ UNCHANGED <<service_vars, get_stats_vars, stats_vars, retry_vars, handler_vars, np_vars>>

\* A pool thread takes the oldest queued work item and calls
\* __download_bgg_plays for its page; at most MAX_WORKERS threads run.
WorkerStart ==
    /\ dl_pc \in {"pool", "shutdown"}
    /\ Pending # {}
    /\ Cardinality(Running) < MAX_WORKERS
    /\ LET p == CHOOSE q \in Pending : \A r \in Pending : q <= r
       IN /\ futures' = [futures EXCEPT ![p].status = "running"]
          /\ requested' = Append(requested, p)
    /\ UNCHANGED <<dl_pc, dl_error, games, total_pages, plays_pages, failed>>
    /\ UNCHANGED <<service_vars, get_stats_vars, stats_vars, retry_vars, handler_vars, np_vars>>

\* A running call of __download_bgg_plays returns its page or raises, in any
\* order among the running calls.
WorkerFinish ==
    /\ dl_pc \in {"pool", "shutdown"}
    /\ \E p \in Running :
       \/ /\ futures' = [futures EXCEPT ![p].status = "done",
                                        ![p].body = PageBody(playlog, p)]
          /\ UNCHANGED failed
       \/ \E e \in FetchErrors :
          /\ Cardinality(failed) < MaxFailures
          /\ futures' = [futures EXCEPT ![p].status = "failed", ![p].error = e]
          /\ failed' = failed \cup {p}
    /\ UNCHANGED <<dl_pc, dl_error, games, total_pages, plays_pages, requested>>
    /\ UNCHANGED <<service_vars, get_stats_vars, stats_vars, retry_vars, handler_vars, np_vars>>

\* Lines 75-76: the main thread takes the next result in page order, once its
\* work item has finished. A result that raises ends the loop: the work items
\* not yet started are cancelled and the pool is left.
Collect ==
    /\ dl_pc = "pool"
    /\ LET p == Len(plays_pages) + 1 IN
       /\ p \in DOMAIN futures
       /\ futures[p].status \in {"done", "failed"}
       /\ LET r == FutureResult(futures[p]) IN
          IF r.raised
          THEN /\ dl_pc' = "shutdown" /\ dl_error' = r.error
               /\ futures' = [q \in DOMAIN futures |->
                                IF futures[q].status = "queued"
                                THEN [futures[q] EXCEPT !.status = "cancelled"]
                                ELSE futures[q]]
               /\ UNCHANGED plays_pages
          ELSE /\ plays_pages' = Append(plays_pages, r.body)
               /\ UNCHANGED <<dl_pc, dl_error, futures>>
    /\ UNCHANGED <<games, total_pages, requested, failed>>
    /\ UNCHANGED <<service_vars, get_stats_vars, stats_vars, retry_vars, handler_vars, np_vars>>

\* The with block is left after an exception once the running calls have
\* ended (shutdown waits for them); download_games raises.
ShutdownRaise ==
    /\ dl_pc = "shutdown"
    /\ Running = {}
    /\ dl_pc' = "raised"
    /\ UNCHANGED <<dl_error, games, total_pages, plays_pages, futures, requested, failed>>
    /\ UNCHANGED <<service_vars, get_stats_vars, stats_vars, retry_vars, handler_vars, np_vars>>

\* Lines 78-96: every result is collected; the pages are merged into the
\* games in list order and the games returned.
MergeAndReturn ==
    /\ dl_pc = "pool"
    /\ Len(plays_pages) = total_pages
    /\ games' = MergePages(games, plays_pages, 1)
    /\ dl_pc' = "returned"
    /\ UNCHANGED <<dl_error, total_pages, plays_pages, futures, requested, failed>>
    /\ UNCHANGED <<service_vars, get_stats_vars, stats_vars, retry_vars, handler_vars, np_vars>>

\* The functions src/baseless.py defines at module level.
BaselessFunctions ==
    {"download_games", "get_base_stats", "get_coins", "get_h_index",
     "get_friendless", "get_baseless_next_plays", "get_baseless_optimum_size"}

\* The keys get_stats would have assigned when it reaches its return.
OutputKeys ==
    {"collectionSize", "baselessStats", "baseStats", "friendlessStats",
     "baselessNextPlays"}

\* get_stats after download_games returned: the owned games are counted and
\* the optimum size computed, then baseless.get_baseless_mean_frecency is
\* looked up: AttributeError when the module has no such function.
GetStatsCompute ==
    /\ stats_pc = "download" /\ dl_pc = "returned"
    /\ LET owned_games == SelectSeq(games, LAMBDA g : g.is_owned)
       IN IF "get_baseless_mean_frecency" \in BaselessFunctions
          THEN /\ stats_pc' = "returned"
               /\ output' = <<[keys |-> OutputKeys, collectionSize |-> Len(owned_games)]>>
          ELSE /\ stats_pc' = "AttributeError"
               /\ output' = <<>>
    /\ UNCHANGED <<service_vars, download_vars, stats_vars, retry_vars, handler_vars, np_vars>>

\* get_stats does not catch what download_games raises.
GetStatsPropagate ==
    /\ stats_pc = "download" /\ dl_pc = "raised"
    /\ stats_pc' = "raised"
    /\ UNCHANGED output
    /\ UNCHANGED <<service_vars, download_vars, stats_vars, retry_vars, handler_vars, np_vars>>

NextDownload ==
    \/ FetchCollection
    \/ FetchFirstPage
    \/ WorkerStart
    \/ WorkerFinish
    \/ Collect
    \/ ShutdownRaise
    \/ MergeAndReturn
    \/ GetStatsCompute
    \/ GetStatsPropagate

SpecDownload == InitDownload /\ [][NextDownload]_vars

DownloadReturned == dl_pc = "returned"

KeptItems == {i \in DOMAIN collection : collection[i].own = "1" \/ collection[i].prevowned = "1"}

\* The sum of the quantity attributes of the play elements lo..hi of a page
\* whose item has objectid id.
RECURSIVE SumQuantity(_, _, _, _)
SumQuantity(entries, id, lo, hi) ==
    IF lo > hi THEN 0
    ELSE IF lo = hi
    THEN IF entries[lo].objectid = id THEN entries[lo].quantity ELSE 0
    ELSE LET mid == (lo + hi) \div 2
         IN SumQuantity(entries, id, lo, mid) + SumQuantity(entries, id, mid + 1, hi)

\* The same sum over the pages i.. of a list of page bodies.
RECURSIVE SumQuantityPages(_, _, _)
SumQuantityPages(bodies, id, i) ==
    IF i > Len(bodies) THEN 0
    ELSE SumQuantity(bodies[i].play, id, 1, Len(bodies[i].play))
         + SumQuantityPages(bodies, id, i + 1)

\* C4: the games download_games returns are exactly the collection's items
\* with own = "1" or prevowned = "1", and each game's plays list is as long as
\* the sum of the quantities of the play entries, over all fetched pages, whose
\* objectid is that game's id; entries of other objectids add nothing and
\* create no game.
C4_OwnedGamesAndQuantities ==
    DownloadReturned =>
        /\ Len(games) = Cardinality(KeptItems)
        /\ \A i \in KeptItems : \E g \in DOMAIN games :
             /\ games[g].game_id = collection[i].objectid
             /\ games[g].is_owned = (collection[i].own = "1")
             /\ games[g].is_previously_owned = (collection[i].prevowned = "1")
        /\ \A g \in DOMAIN games :
             Len(games[g].plays) = SumQuantityPages(plays_pages, games[g].game_id, 1)

C4_Witness ==
    /\ DownloadReturned
    /\ Len(plays_pages) > 2
    /\ \E g \in DOMAIN games : Len(games[g].plays) > PAGE_SIZE
    /\ \E g \in DOMAIN games : ~games[g].is_owned
    /\ \E i \in DOMAIN collection : i \notin KeptItems
    /\ \E i \in DOMAIN playlog :
         /\ playlog[i].quantity > 1
         /\ \A g \in DOMAIN games : games[g].game_id # playlog[i].objectid

\* The pages p, p + 1, ... fetched one after the other up to, not including,
\* the first one without a play element.
RECURSIVE SequentialPages(_, _)
SequentialPages(log, p) ==
    IF PageBody(log, p).play = <<>> THEN <<>>
    ELSE <<PageBody(log, p)>> \o SequentialPages(log, p + 1)

\* The games of the strictly sequential download: its pages merged in order.
SequentialGames ==
    MergePages(BuildGames(collection, 1, <<>>), SequentialPages(playlog, 1), 1)

TimesRequested(p) == Cardinality({i \in DOMAIN requested : requested[i] = p})

\* C5: whatever the interleaving and completion order of the workers, every
\* page holding plays is requested exactly once and every game ends with the
\* plays sequence of the strictly sequential download (pages 1, 2, 3, ... up
\* to the first empty one, merged in page order).
C5_SameAsSequential ==
    DownloadReturned =>
        /\ \A p \in 1..Len(SequentialPages(playlog, 1)) : TimesRequested(p) = 1
        /\ games = SequentialGames

C5_Witness ==
    /\ DownloadReturned
    /\ total_pages > MAX_WORKERS + 1
    /\ Len(SequentialPages(playlog, 1)) = total_pages
    /\ \E g \in DOMAIN games : Len(games[g].plays) > PAGE_SIZE

GetStatsEnded == stats_pc \in {"returned", "raised", "AttributeError"}

\* C6: once the collection fetch or any page fetch has failed, download_games
\* returns no game list and get_stats no document, whichever page failed and
\* however the workers finished: both end by raising the fetch's error.
C6_FailsAsAWhole ==
    failed # {} =>
        /\ dl_pc # "returned"
        /\ stats_pc # "returned" /\ output = <<>>
        /\ dl_pc = "raised" => dl_error \in FetchErrors
        /\ GetStatsEnded => stats_pc = "raised" /\ dl_pc = "raised"

C6_Witness ==
    /\ stats_pc = "raised"
    /\ failed = {4}
    /\ Len(plays_pages) = 3
    /\ \E p \in DOMAIN futures : p > 4 /\ futures[p].status = "done"

\* C8: when the fetch succeeds with at least one owned game, get_stats returns
\* a document with the collection size (the count of owned games), base
\* statistics, coin buckets, the optimum collection size, friendless metrics
\* and the baselessNextPlays list.
C8_ReturnsDocument ==
    (GetStatsEnded /\ DownloadReturned /\ \E g \in DOMAIN games : games[g].is_owned) =>
        /\ stats_pc = "returned"
        /\ output # <<>>
        /\ {"collectionSize", "baseStats", "coins", "baselessStats",
            "friendlessStats", "baselessNextPlays"} \subseteq output[1].keys
        /\ output[1].collectionSize =
             Cardinality({g \in DOMAIN games : games[g].is_owned})

(***************************************************************************)
(* Statistics engine: the baseless scores and get_baseless_next_plays.     *)
(* Floats are fixed-point numbers with four decimals (SCALE units to 1);   *)
(* dates are day numbers, TODAY being the day of the call.                 *)
(***************************************************************************)
SCALE == 10000
TODAY == 2000

\* LAMBDA_FRIENDLESS = 0.2303
LAMBDA_FRIENDLESS == 2303

\* e^-1, and the number of terms of the series for e^-f, 0 <= f < 1.
EXP_MINUS_1 == 3679
EXP_TERMS == 10

\* The terms k.. of the series 1 - f + f^2/2! - ..., term being term k - 1.
RECURSIVE ExpSeries(_, _, _)
ExpSeries(f, k, term) ==
    IF k > EXP_TERMS \/ term = 0 THEN 0
    ELSE LET t == (term * f) \div (k * SCALE)
         IN (IF k % 2 = 1 THEN 0 - t ELSE t) + ExpSeries(f, k + 1, t)

RECURSIVE ExpMinusInt(_, _)
ExpMinusInt(n, x) == IF n = 0 THEN x ELSE ExpMinusInt(n - 1, (x * EXP_MINUS_1) \div SCALE)

\* math.exp(-y) for y >= 0: e^-1 to the integer part of y, times the series
\* at its fractional part.
ExpNeg(y) == ExpMinusInt(y \div SCALE, SCALE + ExpSeries(y % SCALE, 1, SCALE))

\* round(x, digits) of a four-decimal number, in units of the last digit kept.
Round(x, digits) ==
    LET unit == IF digits = 2 THEN 100 ELSE 10
    IN IF x >= 0 THEN (x + unit \div 2) \div unit
       ELSE 0 - ((0 - x + unit \div 2) \div unit)

\* __get_cdf: 1.0 - math.exp(-_lambda * float(x_var))
get_cdf(x_var, lambda) == SCALE - ExpNeg((lambda * x_var) \div SCALE)

\* __get_baseless_recency: exp(-.04 * age_in_years^2), the age being the
\* whole days since the play over 365.25.
get_baseless_recency(play_date) ==
    LET days == TODAY - play_date
        play_age_in_years == (days * 4 * SCALE) \div 1461
        squared == (play_age_in_years * play_age_in_years) \div SCALE
    IN ExpNeg((4 * squared) \div 100)

\* sum(map(__get_baseless_recency, play_dates))
RECURSIVE SumRecency(_)
SumRecency(play_dates) ==
    IF play_dates = <<>> THEN 0
    ELSE get_baseless_recency(Head(play_dates)) + SumRecency(Tail(play_dates))

get_baseless_frequency_score(num_plays) == get_cdf(num_plays, LAMBDA_FRIENDLESS)

\* __get_baseless_frecency_score
get_baseless_frecency_score(play_dates) ==
    get_baseless_frequency_score(SumRecency(play_dates))

RECURSIVE SumFrecency(_)
SumFrecency(list_of_plays) ==
    IF list_of_plays = <<>> THEN 0
    ELSE get_baseless_frecency_score(Head(list_of_plays)) + SumFrecency(Tail(list_of_plays))

\* get_baseless_optimum_size: 2 * sum(map(__get_baseless_frecency_score, play_dates))
get_baseless_optimum_size(list_of_plays) == 2 * SumFrecency(list_of_plays)

\* `list(map(lambda game: game.plays, games))`
PlaysOf(gs) == [g \in DOMAIN gs |-> gs[g].plays]

\* adjusted_list_of_plays: the adjusted copy for the games with the id of the
\* game simulated, the plays of every other game as they are.
AdjustedListOfPlays(gs, game_id, adjusted) ==
    [g \in DOMAIN gs |-> IF gs[g].game_id = game_id THEN adjusted ELSE gs[g].plays]

\* List objects are named by who holds them: the plays list of the game at
\* position g of games is list g, and NEW_LIST is a list no game holds.
NEW_LIST == 0

\* A variant of line 236 that binds adjusted_plays to game.plays itself.
ListAlias(list_id) == list_id

\* `game.plays.copy()`: a new list with the same elements.
ListCopy(list_id) == NEW_LIST

\* `adjusted_plays.append(datetime.now())`: the games once x is appended to
\* the list list_id; only the game that holds that list sees the element.
ListAppend(gs, list_id, x) ==
    [g \in DOMAIN gs |->
        IF g = list_id THEN [gs[g] EXCEPT !.plays = Append(@, x)] ELSE gs[g]]

\* The projection of one game: one pass of the for loop. latestPlay and
\* meanPlayAgeYears, two display fields of a game with plays, are left out.
Projection(gs, game, size) ==
    LET baseless_frecency == get_baseless_frecency_score(game.plays)
        baseless_age_adjusted_plays == SumRecency(game.plays)
        adjusted_plays == Append(game.plays, TODAY)
        next_play_optimum_size ==
            get_baseless_optimum_size(AdjustedListOfPlays(gs, game.game_id, adjusted_plays))
        next_play_frecency == get_baseless_frecency_score(adjusted_plays)
    IN [name |-> game.game_name,
        currentPlays |-> Len(game.plays),
        baseless |->
            [ageAdjustedPlays |-> Round(baseless_age_adjusted_plays, 2),
             frecency |-> Round(baseless_frecency, 3),
             optimumSizeGain |-> Round(next_play_optimum_size - size, 3),
             frecencyGain |-> Round(next_play_frecency - baseless_frecency, 3)]]

Gain(obj) == obj.baseless.optimumSizeGain

\* Stable insertion of a projection in a list in descending order of gain.
RECURSIVE InsertByGain(_, _)
InsertByGain(x, s) ==
    IF s = <<>> THEN <<x>>
    ELSE IF Gain(Head(s)) >= Gain(x) THEN <<Head(s)>> \o InsertByGain(x, Tail(s))
    ELSE <<x>> \o s

RECURSIVE SortedByGainDesc(_)
SortedByGainDesc(s) ==
    IF s = <<>> THEN <<>>
    ELSE InsertByGain(Head(s), SortedByGainDesc(Tail(s)))

\* A variant of the return statement that forgets to sort.
Unsorted(s) == s

\* `sorted(result, key=lambda x: x['baseless']['optimumSizeGain'], reverse=True)`
SortedByGain(s) == SortedByGainDesc(s)

\* Inputs: at most MaxGames games with ids 1, 2, ..., each with at most
\* MaxPlays plays, the first ones OldAge days old and the rest of today.
MaxGames == 3
MaxPlays == 2
OldAge == 730

PlayLists ==
    {[i \in 1..n |-> IF i <= k THEN TODAY - OldAge ELSE TODAY] :
        n \in 0..MaxPlays, k \in 0..MaxPlays}

GameLists ==
    UNION {{[g \in 1..n |->
               [game_id |-> g, game_name |-> <<"game", g>>, is_owned |-> TRUE,
                is_previously_owned |-> FALSE, plays |-> pl[g]]] :
            pl \in [1..n -> PlayLists]} : n \in 0..MaxGames}

InitNextPlays ==
    /\ np_games \in GameLists
    /\ np_pc = "start" /\ optimum_size = 0 /\ np_i = 0
    /\ result = <<>> /\ adjusted_list_of_plays = <<>> /\ next_plays = <<>>
    /\ StatsIdle /\ RetryIdle /\ HandlerIdle /\ DownloadIdle

\* Lines 201-206: the empty result and the optimum size of the games.
NextPlaysStart ==
    /\ np_pc = "start"
    /\ result' = <<>>
    /\ optimum_size' = get_baseless_optimum_size(PlaysOf(np_games))
    /\ np_i' = 1
    /\ np_pc' = "loop"
    /\ UNCHANGED <<np_games, adjusted_list_of_plays, next_plays>>
    /\ UNCHANGED <<stats_vars, retry_vars, handler_vars, dl_vars>>

\* Lines 207-251: one pass of the for loop, for the game at np_i.
NextPlaysIterate ==
    /\ np_pc = "loop"
    /\ np_i <= Len(np_games)
    /\ LET game == np_games[np_i] IN
       /\ adjusted_list_of_plays' =
              AdjustedListOfPlays(np_games, game.game_id, Append(game.plays, TODAY))
       /\ result' = Append(result, Projection(np_games, game, optimum_size))
    /\ np_games' = ListAppend(np_games, ListCopy(np_i), TODAY)
    /\ np_i' = np_i + 1
    /\ UNCHANGED <<np_pc, optimum_size, next_plays>>
    /\ UNCHANGED <<stats_vars, retry_vars, handler_vars, dl_vars>>

\* Line 253: the loop is over; the projections are returned sorted.
NextPlaysReturn ==
    /\ np_pc = "loop"
    /\ np_i > Len(np_games)
    /\ next_plays' = <<SortedByGain(result)>>
    /\ np_pc' = "returned"
    /\ UNCHANGED <<np_games, optimum_size, np_i, result, adjusted_list_of_plays>>
    /\ UNCHANGED <<stats_vars, retry_vars, handler_vars, dl_vars>>

NextNextPlays == NextPlaysStart \/ NextPlaysIterate \/ NextPlaysReturn

SpecNextPlays == InitNextPlays /\ [][NextNextPlays]_vars

NextPlaysReturned == np_pc = "returned"

\* C10: get_baseless_next_plays returns exactly one projection per input
\* game, in an order in which optimumSizeGain never increases.
C10_OnePerGameSortedByGain ==
    NextPlaysReturned =>
        LET out == next_plays[1] IN
        /\ Len(out) = Len(np_games)
        /\ \A g \in DOMAIN np_games :
             Cardinality({i \in DOMAIN out : out[i].name = np_games[g].game_name}) = 1
        /\ \A g \in DOMAIN np_games : \E i \in DOMAIN out :
             out[i] = Projection(np_games, np_games[g], optimum_size)
        /\ \A i \in 1..(Len(out) - 1) : Gain(out[i]) >= Gain(out[i + 1])

C10_Witness ==
    /\ NextPlaysReturned
    /\ Len(np_games) = 3
    /\ Gain(result[1]) < Gain(result[2])
    /\ Gain(result[2]) > Gain(result[3])
    /\ Gain(next_plays[1][1]) > Gain(next_plays[1][3])

\* One pass of the for loop: the extra play of the game at np_i is simulated.
Simulates == np_pc = "loop" /\ np_i' = np_i + 1

\* C11: no step of get_baseless_next_plays changes the plays list of any
\* input game, so every list stays the one given to the call; and the pass
\* that simulates the extra play of one game uses that game's list with one
\* play of today appended and, for every other game, its list as given.
C11_InputPlaysUnchanged ==
    [][/\ PlaysOf(np_games') = PlaysOf(np_games)
       /\ Simulates =>
            \A g \in DOMAIN np_games :
                adjusted_list_of_plays'[g] =
                    IF g = np_i THEN Append(np_games[g].plays, TODAY)
                    ELSE np_games[g].plays]_vars

C11_Witness ==
    /\ NextPlaysReturned
    /\ Len(np_games) = 3
    /\ \A g \in DOMAIN np_games : Len(np_games[g].plays) = 1
    /\ adjusted_list_of_plays[1] = np_games[1].plays
    /\ adjusted_list_of_plays[3] = Append(np_games[3].plays, TODAY)

====
